---- MODULE Spec2Model ----
(***************************************************************************)
(* Client-side search-session controller of the Spanish crossword solver:  *)
(* the App component (search dispatch, responses, search history and its   *)
(* localStorage copy), the SearchBar component (form fields, mode          *)
(* detection, submit resolution, history selection) and the ResultsList    *)
(* component (filters, sorting, the list it shows).                        *)
(*                                                                         *)
(* Text is a sequence of character codes (UTF-16 code units), so that      *)
(* trim(), includes(' ') and the regular expression of detectInputType     *)
(* are computed on characters as the code computes them.                   *)
(***************************************************************************)
EXTENDS Integers, Sequences, FiniteSets

VARIABLES
    \* App.tsx state
    results,            \* WordResult[]                       (App.tsx:28)
    isSearching,        \* boolean                            (App.tsx:29)
    error,              \* string | null                      (App.tsx:30)
    searchHistory,      \* SearchHistoryItem[]                (App.tsx:31)
    currentSearchMode,  \* SearchMode                         (App.tsx:32)
    storage,            \* localStorage[SEARCH_HISTORY_KEY]
    inflight,           \* handleSearch calls suspended at their fetch
    nextId,             \* number of handleSearch calls made so far, plus one
    now,                \* Date.now() at the next call of saveToHistory
    \* SearchBar.tsx state
    searchMode,         \* SearchBar.tsx:23
    pattern,            \* SearchBar.tsx:24
    length,             \* SearchBar.tsx:25 (the text of the number input)
    clue,               \* SearchBar.tsx:26
    showHistory,        \* SearchBar.tsx:28
    \* ResultsList state
    filters,            \* FilterState                        (part_000:38)
    showFilters,        \* boolean                            (part_000:29)
    selectedDefinition, \* the definition modal's content     (part_000:28)
    \* observation of the run (not program state)
    resultsOf,          \* id of the handleSearch call whose response `results` holds
    ev,                 \* the last event handled, with the state it started from
    \* detectInputType applied to drawn inputs (specification DetectSpec)
    dInput, dMode, dResult,
    \* filteredAndSortedResults computed on drawn inputs (specification ViewSpec)
    curated,
    \* the mount effect run on drawn storage contents (specification LoadSpec)
    mount,
    \* the file downloadCSV hands to the browser (specification ViewSpec)
    csv

appVars == <<results, isSearching, error, searchHistory, currentSearchMode,
             storage, inflight, nextId, now, resultsOf>>
barVars == <<searchMode, pattern, length, clue, showHistory>>
listVars == <<filters, showFilters, selectedDefinition>>
detVars == <<dInput, dMode, dResult>>
viewVars == <<curated>>
sideVars == <<mount, csv>>
vars == <<results, isSearching, error, searchHistory, currentSearchMode,
          storage, inflight, nextId, now, searchMode, pattern, length, clue,
          showHistory, filters, showFilters, selectedDefinition, resultsOf, ev, dInput, dMode, dResult,
          curated, mount, csv>>

----------------------------------------------------------------------------
(* Bounds of the model *)

\* handleSearch calls made in one session
MaxRequests == 2
\* length of the texts detectInputType is applied to in DetectSpec
MaxInputLen == 3
\* number of results filteredAndSortedResults is applied to in ViewSpec
MaxResults == 3

(* Program constants *)
MAX_HISTORY_ITEMS == 20

----------------------------------------------------------------------------
(* Text *)

\* Characters String.prototype.trim() strips (WhiteSpace and LineTerminator).
IsWhiteSpace(c) ==
    \/ c \in {9, 10, 11, 12, 13, 32, 160, 5760, 8232, 8233, 8239, 8287, 12288, 65279}
    \/ c \in 8192..8202

RECURSIVE TrimStart(_)
TrimStart(s) ==
    IF s = <<>> THEN <<>>
    ELSE IF IsWhiteSpace(Head(s)) THEN TrimStart(Tail(s)) ELSE s

RECURSIVE TrimEnd(_)
TrimEnd(s) ==
    IF s = <<>> THEN <<>>
    ELSE IF IsWhiteSpace(s[Len(s)]) THEN TrimEnd(SubSeq(s, 1, Len(s) - 1)) ELSE s

\* input.trim()
Trim(s) == TrimEnd(TrimStart(s))

\* trimmed.includes(' ')
IncludesSpace(s) == \E i \in 1..Len(s) : s[i] = 32

\* one character of the class [A-Za-z_*]
InPatternClass(c) == c \in (65..90) \cup (97..122) \cup {95, 42}

\* /^[A-Za-z_*]+$/.test(s)
MatchesPatternRegex_Unanchored(s) == \E i \in 1..Len(s) : InPatternClass(s[i])
MatchesPatternRegex(s) == Len(s) >= 1 /\ \A i \in 1..Len(s) : InPatternClass(s[i])

\* detectInputType, with the searchMode it closes over as a parameter
detectInputType(input, mode) ==
    LET trimmed == Trim(input) IN
    IF trimmed = <<>> THEN mode
    ELSE IF IncludesSpace(trimmed) THEN "definition"
    ELSE IF MatchesPatternRegex(trimmed) THEN "pattern"
    ELSE "definition"

RECURSIVE DigitsValue(_, _)
DigitsValue(s, acc) ==
    IF s = <<>> \/ Head(s) \notin 48..57 THEN acc
    ELSE DigitsValue(Tail(s), 10 * acc + (Head(s) - 48))

\* parseInt(text) || 0 : leading white space skipped, an optional sign, then the
\* leading decimal digits; NaN (no digit) and 0 both give 0.
ParseIntOr0(text) ==
    LET s == TrimStart(text) IN
    IF s = <<>> THEN 0
    ELSE IF Head(s) = 45 THEN 0 - DigitsValue(Tail(s), 0)
    ELSE IF Head(s) = 43 THEN DigitsValue(Tail(s), 0)
    ELSE DigitsValue(s, 0)

RECURSIVE NatToString(_)
NatToString(n) ==
    IF n < 10 THEN <<48 + n>> ELSE NatToString(n \div 10) \o <<48 + (n % 10)>>

\* item.length.toString()
toString(n) == IF n < 0 THEN <<45>> \o NatToString(0 - n) ELSE NatToString(n)

----------------------------------------------------------------------------
(* Values *)

SearchModes == {"pattern", "definition"}

\* error === null
Null == "<null>"

\* One WordResult: word, score (in ten-thousandths), definition ("" when the
\* service sent none) and source.
WordResult(w, sc, d, src) == [word |-> w, score |-> sc, definition |-> d, source |-> src]

\* The result sets the Solve Service answers with: no result; CASA, CASO, COSA;
\* or GATO, GATA with equal scores.
ResultSets ==
    { <<>>,
      << WordResult(<<67, 65, 83, 65>>, 8234, "Edificio para habitar", "local"),
         WordResult(<<67, 65, 83, 79>>, 6000, "", "local"),
         WordResult(<<67, 79, 83, 65>>, 9000, "Objeto", "rae") >>,
      << WordResult(<<71, 65, 84, 79>>, 7000, "Animal", "local"),
         WordResult(<<71, 65, 84, 65>>, 7000, "", "local") >> }

\* How a search can fail, and the message the catch block shows for it.
FailKinds == {"http_detail", "http_unparseable", "network", "ok_unparseable"}

\* errorMessage of the catch block: the detail of a non-success response,
\* 'Error desconocido' when its body does not parse, and
\* the message of the Error thrown by fetch or by response.json() otherwise.
ErrorMessage(kind) ==
    CASE kind = "http_detail"      -> "Patron invalido"
      [] kind = "http_unparseable" -> "Error desconocido"
      [] kind = "network"          -> "Failed to fetch"
      [] kind = "ok_unparseable"   -> "Unexpected end of JSON input"

\* A SearchHistoryItem
HistoryItem(p, l, c, m, ts) ==
    [pattern |-> p, length |-> l, clue |-> c, mode |-> m, timestamp |-> ts]

\* item.pattern === pattern && item.clue === clue && item.mode === mode
SameKey(item, p, c, m) == item.pattern = p /\ item.clue = c /\ item.mode = m

\* identity key of an item
KeyOf(item) == <<item.pattern, item.clue, item.mode>>

Take(s, n) == SubSeq(s, 1, IF Len(s) < n THEN Len(s) ELSE n)

\* JSON.stringify of the history: an array of objects, each written as the values
\* of its keys in insertion order (pattern, length, clue, mode, timestamp).
JSONstringify(hist) ==
    [i \in 1..Len(hist) |->
        <<hist[i].pattern, hist[i].length, hist[i].clue, hist[i].mode, hist[i].timestamp>>]

\* JSON.parse of such a text
JSONparse(text) ==
    [i \in 1..Len(text) |->
        HistoryItem(text[i][1], text[i][2], text[i][3], text[i][4], text[i][5])]

\* localStorage without the key, and with a text under it
NoKey == [present |-> FALSE, text |-> <<>>]
Stored(text) == [present |-> TRUE, text |-> text]

\* A JavaScript value as the mount effect sees it: its type and, for an array,
\* its items
JSValue(type, items) == [type |-> type, items |-> items]
Array(items) == JSValue("array", items)

\* The mount effect has not run
NoMount == [phase |-> "start", history |-> Array(<<>>), logged |-> FALSE]

\* No download has been made
NoFile == [saved |-> FALSE, text |-> <<>>]

\* The mount effect: the stored history, or [] when the key is missing.
LoadHistory(st) == IF st.present THEN JSONparse(st.text) ELSE <<>>

\* updatedHistory of saveToHistory, computed from the searchHistory of its closure
updatedHistory_NoDedup(hist, p, l, c, m, ts) ==
    Take(<<HistoryItem(p, l, c, m, ts)>> \o hist, MAX_HISTORY_ITEMS)
updatedHistory_Append(hist, p, l, c, m, ts) ==
    LET Other(item) == ~SameKey(item, p, c, m) IN
    Take(SelectSeq(hist, Other) \o <<HistoryItem(p, l, c, m, ts)>>, MAX_HISTORY_ITEMS)
updatedHistory(hist, p, l, c, m, ts) ==
    LET Other(item) == ~SameKey(item, p, c, m) IN
    Take(<<HistoryItem(p, l, c, m, ts)>> \o SelectSeq(hist, Other), MAX_HISTORY_ITEMS)

\* The URL path handleSearch posts to
Endpoint(m) == IF m = "definition" THEN "/api/solve-by-definition" ELSE "/api/solve"

\* The body handleSearch posts: JSON.stringify leaves out the properties whose
\* value is undefined, so the body is the set of the keys it carries and their
\* values (an absent key has the empty value).
RequestBody_PatternAlways(p, l, c, m) ==
    [keys |-> {k \in {"pattern", "clue"} : (k = "pattern" /\ p # <<>>) \/ (k = "clue" /\ c # <<>>)}
              \cup (IF l > 0 THEN {IF m = "definition" THEN "max_length" ELSE "length"} ELSE {}),
     pattern |-> p,
     clue |-> c,
     length |-> IF m # "definition" /\ l > 0 THEN l ELSE 0,
     max_length |-> IF m = "definition" /\ l > 0 THEN l ELSE 0]
RequestBody(p, l, c, m) ==
    IF m = "definition"
    THEN [keys |-> (IF c # <<>> THEN {"clue"} ELSE {})
                   \cup (IF l > 0 THEN {"max_length"} ELSE {}),
          pattern |-> <<>>,
          clue |-> c,
          length |-> 0,
          max_length |-> IF l > 0 THEN l ELSE 0]
    ELSE [keys |-> (IF p # <<>> THEN {"pattern"} ELSE {})
                   \cup (IF l > 0 THEN {"length"} ELSE {})
                   \cup (IF c # <<>> THEN {"clue"} ELSE {}),
          pattern |-> p,
          clue |-> c,
          length |-> IF l > 0 THEN l ELSE 0,
          max_length |-> 0]

\* A handleSearch call suspended at its fetch: its arguments, the request it sent,
\* and the searchHistory of the render it was created in (the one saveToHistory
\* will read).
Request(id, p, l, c, m, hist) ==
    [id |-> id, pattern |-> p, length |-> l, clue |-> c, mode |-> m, hist |-> hist,
     endpoint |-> Endpoint(m), body |-> RequestBody(p, l, c, m)]

NoRequest == Request(0, <<>>, 0, <<>>, "pattern", <<>>)

\* The history a previous session left in localStorage: n pattern searches
\* "a", "b", ..., the first the most recent.
SeedHistory(n) ==
    [i \in 1..n |-> HistoryItem(<<96 + i>>, 0, <<>>, "pattern", n + 1 - i)]

InitStorages ==
    { NoKey, Stored(JSONstringify(SeedHistory(MAX_HISTORY_ITEMS))) }

\* The items of the history panel the user clicks: the first and the last
ClickPositions(hist) == {1, Len(hist)} \cap (1..Len(hist))

\* What the user types: in the pattern box nothing, "a " or "a b"; in the clue box
\* nothing or "g"; in the length box nothing or "5".
PatternInputs == { <<>>, <<97, 32>>, <<97, 32, 98>> }
ClueInputs == { <<>>, <<103>> }
LengthInputs == { <<>>, <<53>> }

----------------------------------------------------------------------------
(* ResultsList: filter state and its effects *)

SortOptions == {"score", "alphabetical", "length", "found"}

\* curated before filteredAndSortedResults has been computed
NoView == [done |-> FALSE, items |-> <<>>]

\* sortBy of a mode: searchMode === 'pattern' ? 'found' : 'score'
DefaultSort(m) == IF m = "pattern" THEN "found" ELSE "score"

\* useState<FilterState> at the first render, where searchMode is 'pattern'
InitFilters ==
    [minLength |-> 0, maxLength |-> 20, showDefinitions |-> TRUE,
     sortBy |-> DefaultSort("pattern")]

WordLengths(rs) == { Len(rs[i].word) : i \in 1..Len(rs) }
MinOf(S) == CHOOSE x \in S : \A y \in S : x <= y
MaxOf(S) == CHOOSE x \in S : \A y \in S : x >= y

\* lengthRange: the bounds of the two range inputs
lengthRange(rs) ==
    IF Len(rs) = 0 THEN [min |-> 0, max |-> 20]
    ELSE [min |-> MinOf(WordLengths(rs)), max |-> MaxOf(WordLengths(rs))]

\* The effect on [searchMode]: it runs when the searchMode prop has changed
searchModeEffect_KeepSort(f, oldMode, newMode) == f
searchModeEffect(f, oldMode, newMode) ==
    IF newMode # oldMode THEN [f EXCEPT !.sortBy = DefaultSort(newMode)] ELSE f

\* The effect on [results]: it runs when App has set a new results array
resultsEffect_KeepRange(f, rs) == f
resultsEffect(f, rs) ==
    IF Len(rs) > 0
    THEN [f EXCEPT !.minLength = MinOf(WordLengths(rs)),
                   !.maxLength = MaxOf(WordLengths(rs))]
    ELSE f

----------------------------------------------------------------------------
(* ResultsList: the list it shows *)

\* a.localeCompare(b), as -1, 0 or 1. The words of the model are written in
\* unaccented capital letters, which every locale collates in code order.
RECURSIVE localeCompare(_, _)
localeCompare(a, b) ==
    IF a = <<>> /\ b = <<>> THEN 0
    ELSE IF a = <<>> THEN -1
    ELSE IF b = <<>> THEN 1
    ELSE IF Head(a) < Head(b) THEN -1
    ELSE IF Head(a) > Head(b) THEN 1
    ELSE localeCompare(Tail(a), Tail(b))

\* The comparator of the sort, by filters.sortBy
compare_ScoreAscending(sortBy, a, b) ==
    CASE sortBy = "alphabetical" -> localeCompare(a.word, b.word)
      [] sortBy = "length" -> Len(a.word) - Len(b.word)
      [] sortBy = "found" -> 0
      [] OTHER -> a.score - b.score
compare(sortBy, a, b) ==
    CASE sortBy = "alphabetical" -> localeCompare(a.word, b.word)
      [] sortBy = "length" -> Len(a.word) - Len(b.word)
      [] sortBy = "found" -> 0
      [] OTHER -> b.score - a.score

\* Array.prototype.sort is stable: x goes after the items that do not compare
\* greater than it.
RECURSIVE InsertSorted(_, _, _)
InsertSorted(sortBy, x, sorted) ==
    IF sorted = <<>> THEN <<x>>
    ELSE IF compare(sortBy, Head(sorted), x) <= 0
         THEN <<Head(sorted)>> \o InsertSorted(sortBy, x, Tail(sorted))
         ELSE <<x>> \o sorted

RECURSIVE sort(_, _)
sort(sortBy, items) ==
    IF items = <<>> THEN <<>>
    ELSE InsertSorted(sortBy, items[Len(items)],
                      sort(sortBy, SubSeq(items, 1, Len(items) - 1)))

\* filteredAndSortedResults: the length filter in definition mode, then the sort
filteredAndSortedResults_FilterAlways(rs, f, m) ==
    LET InRange(r) == Len(r.word) >= f.minLength /\ Len(r.word) <= f.maxLength IN
    sort(f.sortBy, SelectSeq(rs, InRange))
filteredAndSortedResults_StrictRange(rs, f, m) ==
    LET InRange(r) == Len(r.word) > f.minLength /\ Len(r.word) < f.maxLength IN
    sort(f.sortBy, IF m = "definition" THEN SelectSeq(rs, InRange) ELSE rs)
filteredAndSortedResults(rs, f, m) ==
    LET InRange(r) == Len(r.word) >= f.minLength /\ Len(r.word) <= f.maxLength IN
    sort(f.sortBy, IF m = "definition" THEN SelectSeq(rs, InRange) ELSE rs)

\* useState<{ word, definition } | null>(null): the modal is closed (null) or
\* holds one word with its definition
NoSelection == [open |-> FALSE, word |-> <<>>, definition |-> ""]

Selection(word, definition) == [open |-> TRUE, word |-> word, definition |-> definition]

\* No result clicked
NoResult == WordResult(<<>>, 0, "", "")

\* The last event: its kind, the handleSearch call it dispatched or resolved, and
\* the state it started from.
Event(kind, req, writeOk) ==
    [kind |-> kind, req |-> req, writeOk |-> writeOk,
     preHistory |-> searchHistory, preStorage |-> storage,
     preResults |-> results, preError |-> error, preSearching |-> isSearching,
     preMode |-> currentSearchMode, preFilters |-> filters,
     clicked |-> NoResult, preSelected |-> NoSelection, fail |-> "none"]

\* An event whose starting state no property reads (typing, opening the history)
EditEvent(kind) ==
    [kind |-> kind, req |-> NoRequest, writeOk |-> TRUE,
     preHistory |-> <<>>, preStorage |-> NoKey,
     preResults |-> <<>>, preError |-> Null, preSearching |-> FALSE,
     preMode |-> "pattern", preFilters |-> InitFilters,
     clicked |-> NoResult, preSelected |-> NoSelection, fail |-> "none"]

----------------------------------------------------------------------------
(* ResultsList: downloadCSV *)

\* The characters of the strings of the model
Chars(str) ==
    CASE str = "" -> <<>>
      [] str = "Edificio para habitar" -> <<69, 100, 105, 102, 105, 99, 105, 111, 32, 112, 97, 114, 97, 32, 104, 97, 98, 105, 116, 97, 114>>
      [] str = "Objeto" -> <<79, 98, 106, 101, 116, 111>>
      [] str = "Animal" -> <<65, 110, 105, 109, 97, 108>>
      [] str = "Astro" -> <<65, 115, 116, 114, 111>>
      [] str = "Felinos" -> <<70, 101, 108, 105, 110, 111, 115>>
      [] str = "local" -> <<108, 111, 99, 97, 108>>
      [] str = "rae" -> <<114, 97, 101>>
      [] str = "Palabra" -> <<80, 97, 108, 97, 98, 114, 97>>
      [] str = "Puntuación" -> <<80, 117, 110, 116, 117, 97, 99, 105, 243, 110>>
      [] str = "Definición" -> <<68, 101, 102, 105, 110, 105, 99, 105, 243, 110>>
      [] str = "Fuente" -> <<70, 117, 101, 110, 116, 101>>

\* array.join(separator)
RECURSIVE join(_, _)
join(parts, separator) ==
    IF parts = <<>> THEN <<>>
    ELSE IF Len(parts) = 1 THEN parts[1]
    ELSE parts[1] \o separator \o join(Tail(parts), separator)

RECURSIVE StripTrailingZeros(_)
StripTrailingZeros(digits) ==
    IF digits # <<>> /\ digits[Len(digits)] = 48
    THEN StripTrailingZeros(SubSeq(digits, 1, Len(digits) - 1))
    ELSE digits

\* r.score.toString() of a score given in ten-thousandths: the integer part,
\* then the point and the decimals without trailing zeros when there are any
scoreToString(score) ==
    LET Digit(unit) == 48 + ((score \div unit) % 10)
        decimals == StripTrailingZeros(<<Digit(1000), Digit(100), Digit(10), Digit(1)>>) IN
    NatToString(score \div 10000) \o (IF decimals = <<>> THEN <<>> ELSE <<46>> \o decimals)

\* `"${cell}"`
quoteCell_Bare(cell) == cell
quoteCell(cell) == <<34>> \o cell \o <<34>>

\* The text downloadCSV builds from the list shown: the header cells and one row
\* of cells per item, every cell quoted, the cells of a row joined by commas and
\* the rows by line feeds
csvText(shown) ==
    LET rows == << <<Chars("Palabra"), Chars("Puntuación"), Chars("Definición"), Chars("Fuente")>> >>
                \o [i \in 1..Len(shown) |->
                       <<shown[i].word, scoreToString(shown[i].score),
                         Chars(shown[i].definition), Chars(shown[i].source)>>] IN
    join([i \in 1..Len(rows) |->
             join([j \in 1..Len(rows[i]) |-> quoteCell(rows[i][j])], <<44>>)], <<10>>)

----------------------------------------------------------------------------
(* SearchBar: what handleSubmit resolves the form to *)

\* handleSubmit up to its call of onSearch: whether it calls onSearch, and with
\* which pattern, length, clue and mode.
handleSubmit_NoMove(sm, pat, len, cl) ==
    LET trimmedPattern == Trim(pat)
        trimmedClue == Trim(cl)
    IN  [calls |-> trimmedPattern # <<>> \/ len # <<>> \/ (trimmedClue # <<>> /\ sm = "definition"),
         pattern |-> trimmedPattern,
         length |-> ParseIntOr0(len),
         clue |-> trimmedClue,
         mode |-> IF trimmedPattern # <<>> THEN detectInputType(trimmedPattern, sm)
                  ELSE IF trimmedClue # <<>> /\ sm = "definition" THEN "definition"
                  ELSE "pattern"]
handleSubmit_AlwaysCalls(sm, pat, len, cl) ==
    [calls |-> TRUE,
     pattern |-> Trim(pat),
     length |-> ParseIntOr0(len),
     clue |-> Trim(cl),
     mode |-> sm]
handleSubmit(sm, pat, len, cl) ==
    LET trimmedPattern == Trim(pat)
        trimmedClue == Trim(cl)
        detectedMode == detectInputType(trimmedPattern, sm)
        moved == detectedMode = "definition" /\ sm = "pattern"
        res ==
            IF trimmedPattern # <<>> THEN
                [valid |-> TRUE,
                 pattern |-> IF moved THEN <<>> ELSE trimmedPattern,
                 clue |-> IF moved THEN trimmedPattern ELSE trimmedClue,
                 mode |-> detectedMode]
            ELSE IF trimmedClue # <<>> /\ sm = "definition" THEN
                [valid |-> TRUE, pattern |-> <<>>, clue |-> trimmedClue, mode |-> "definition"]
            ELSE IF len # <<>> THEN
                [valid |-> TRUE, pattern |-> <<>>, clue |-> trimmedClue, mode |-> "pattern"]
            ELSE
                [valid |-> FALSE, pattern |-> <<>>, clue |-> trimmedClue, mode |-> sm]
    IN  [calls |-> /\ res.valid
                   /\ \/ res.pattern # <<>>
                      \/ len # <<>>
                      \/ (res.clue # <<>> /\ res.mode = "definition"),
         pattern |-> res.pattern,
         length |-> ParseIntOr0(len),
         clue |-> res.clue,
         mode |-> res.mode]

\* disabled attribute of the submit button
SubmitDisabled ==
    \/ isSearching
    \/ (searchMode = "pattern" /\ Trim(pattern) = <<>>)
    \/ (searchMode = "definition" /\ Trim(clue) = <<>>)

\* Constraint validation of the form: the number input (min 1, max 20), rendered in
\* definition mode only, blocks the submit event while its value is out of range.
FormValid ==
    (searchMode = "definition" /\ length # <<>>) => ParseIntOr0(length) \in 1..20

----------------------------------------------------------------------------
(* App: handleSearch *)

\* handleSearch up to its fetch: the flags are set, the results cleared, and the
\* call is suspended holding the searchHistory of the current render.
Dispatch(p, l, c, m) ==
    /\ nextId <= MaxRequests
    /\ isSearching' = TRUE
    /\ error' = Null
    /\ results' = <<>>
    /\ resultsOf' = 0
    /\ currentSearchMode' = m
    /\ inflight' = inflight \cup {Request(nextId, p, l, c, m, searchHistory)}
    /\ nextId' = nextId + 1
    /\ filters' = searchModeEffect(resultsEffect(filters, <<>>), currentSearchMode, m)
    /\ UNCHANGED <<searchHistory, storage, now, showFilters, selectedDefinition>>

Init ==
    /\ storage \in InitStorages
    /\ searchHistory = LoadHistory(storage)
    /\ results = <<>>
    /\ resultsOf = 0
    /\ isSearching = FALSE
    /\ error = Null
    /\ currentSearchMode = "pattern"
    /\ inflight = {}
    /\ nextId = 1
    /\ now = MAX_HISTORY_ITEMS + 1
    /\ searchMode = "pattern"
    /\ pattern = <<>>
    /\ length = <<>>
    /\ clue = <<>>
    /\ showHistory = FALSE
    /\ ev = EditEvent("init")
    /\ dInput = <<>>
    /\ dMode = "pattern"
    /\ dResult = "none"
    /\ filters = [InitFilters EXCEPT !.sortBy = DefaultSort(currentSearchMode)]
    /\ showFilters = FALSE
    /\ selectedDefinition = NoSelection
    /\ curated = NoView
    /\ mount = NoMount
    /\ csv = NoFile

\* onChange of the pattern input (rendered in pattern mode)
PatternChange_NoSwitch ==
    /\ searchMode = "pattern"
    /\ \E value \in PatternInputs : pattern' = value
    /\ ev' = EditEvent("edit")
    /\ UNCHANGED <<appVars, searchMode, length, clue, showHistory, listVars, detVars, viewVars,
                   sideVars>>
PatternChange ==
    /\ searchMode = "pattern"
    /\ \E value \in PatternInputs :
        /\ pattern' = value
        /\ searchMode' =
             IF detectInputType(value, searchMode) # searchMode /\ Trim(value) # <<>>
             THEN detectInputType(value, searchMode) ELSE searchMode
    /\ ev' = EditEvent("edit")
    /\ UNCHANGED <<appVars, length, clue, showHistory, listVars, detVars, viewVars, sideVars>>

\* onChange of the clue input (the definition input, or the optional clue)
ClueChange ==
    /\ \E value \in ClueInputs : clue' = value
    /\ ev' = EditEvent("edit")
    /\ UNCHANGED <<appVars, searchMode, pattern, length, showHistory, listVars, detVars, viewVars, sideVars>>

\* onChange of the length input (rendered in definition mode)
LengthChange ==
    /\ searchMode = "definition"
    /\ \E value \in LengthInputs : length' = value
    /\ ev' = EditEvent("edit")
    /\ UNCHANGED <<appVars, searchMode, pattern, clue, showHistory, listVars, detVars, viewVars, sideVars>>

\* onChange of a mode radio, with App's onModeChange
ModeRadio_KeepFields ==
    /\ \E newMode \in SearchModes \ {searchMode} :
        /\ searchMode' = newMode
        /\ currentSearchMode' = newMode
    /\ results' = <<>>
    /\ resultsOf' = 0
    /\ filters' = searchModeEffect(resultsEffect(filters, <<>>), currentSearchMode,
                                   currentSearchMode')
    /\ ev' = EditEvent("mode")
    /\ UNCHANGED <<isSearching, error, searchHistory, storage, inflight, nextId, now,
                   pattern, clue, length,
                   showHistory, showFilters, selectedDefinition, detVars, viewVars, sideVars>>
ModeRadio ==
    /\ \E newMode \in SearchModes \ {searchMode} :
        /\ searchMode' = newMode
        /\ currentSearchMode' = newMode
    /\ pattern' = <<>>
    /\ clue' = <<>>
    /\ length' = <<>>
    /\ results' = <<>>
    /\ resultsOf' = 0
    /\ filters' = searchModeEffect(resultsEffect(filters, <<>>), currentSearchMode,
                                   currentSearchMode')
    /\ ev' = EditEvent("mode")
    /\ UNCHANGED <<isSearching, error, searchHistory, storage, inflight, nextId, now,
                   showHistory, showFilters, selectedDefinition, detVars, viewVars, sideVars>>

\* the history button (rendered while the history is not empty)
ToggleHistory ==
    /\ Len(searchHistory) > 0
    /\ showHistory' = ~showHistory
    /\ ev' = EditEvent("edit")
    /\ UNCHANGED <<appVars, searchMode, pattern, length, clue, listVars, detVars, viewVars, sideVars>>

\* the close button of the history panel
CloseHistory ==
    /\ Len(searchHistory) > 0
    /\ showHistory
    /\ showHistory' = FALSE
    /\ ev' = EditEvent("edit")
    /\ UNCHANGED <<appVars, searchMode, pattern, length, clue, listVars, detVars, viewVars, sideVars>>

\* the submit event of the form: handleSubmit, and handleSearch up to its fetch
SubmitEvent ==
    /\ LET s == handleSubmit(searchMode, pattern, length, clue) IN
        IF s.calls
        THEN /\ Dispatch(s.pattern, s.length, s.clue, s.mode)
             /\ ev' = Event("submit", Request(nextId, s.pattern, s.length, s.clue, s.mode,
                                              searchHistory), TRUE)
        ELSE /\ ev' = Event("submit_noop", NoRequest, TRUE)
             /\ UNCHANGED <<appVars, listVars>>
    /\ UNCHANGED <<barVars, detVars, viewVars, sideVars>>

\* the submit button: it delivers the submit event while it is enabled and the
\* form is valid
Submit ==
    /\ ~SubmitDisabled
    /\ FormValid
    /\ SubmitEvent

\* handleHistoryClick on the i-th item of the open history panel
HistoryClick_RestoreOnly ==
    /\ showHistory
    /\ \E i \in ClickPositions(searchHistory) :
        LET item == searchHistory[i] IN
        /\ searchMode' = item.mode
        /\ pattern' = item.pattern
        /\ length' = toString(item.length)
        /\ clue' = item.clue
        /\ showHistory' = FALSE
        /\ ev' = Event("history", NoRequest, TRUE)
    /\ UNCHANGED <<appVars, listVars, detVars, viewVars, sideVars>>
HistoryClick ==
    /\ showHistory
    /\ \E i \in ClickPositions(searchHistory) :
        LET item == searchHistory[i] IN
        /\ searchMode' = item.mode
        /\ pattern' = item.pattern
        /\ length' = toString(item.length)
        /\ clue' = item.clue
        /\ showHistory' = FALSE
        /\ Dispatch(item.pattern, item.length, item.clue, item.mode)
        /\ ev' = Event("history", Request(nextId, item.pattern, item.length, item.clue,
                                          item.mode, searchHistory), TRUE)
    /\ UNCHANGED <<detVars, viewVars, sideVars>>

\* saveToHistory as called by the handleSearch call r: the new list goes to the
\* state, then to localStorage, where the write may throw (caught and logged).
saveToHistory(r, writeOk) ==
    LET updated == updatedHistory(r.hist, r.pattern, r.length, r.clue, r.mode, now) IN
    /\ searchHistory' = updated
    /\ storage' = IF writeOk THEN Stored(JSONstringify(updated)) ELSE storage

\* a fetch resolves with a success response whose body parses and holds one of
\* the result sets
ResponseOkWith(resultSets) ==
    /\ \E r \in inflight, rs \in resultSets, writeOk \in BOOLEAN :
        /\ results' = rs
        /\ resultsOf' = r.id
        /\ filters' = resultsEffect(filters, rs)
        /\ saveToHistory(r, writeOk)
        /\ inflight' = inflight \ {r}
        /\ ev' = Event("response_ok", r, writeOk)
    /\ isSearching' = FALSE
    /\ now' = now + 1
    /\ UNCHANGED <<error, currentSearchMode, nextId, barVars, showFilters, selectedDefinition, detVars, viewVars, sideVars>>

ResponseOk == ResponseOkWith(ResultSets)

\* a fetch rejects, or resolves with a non-success response or an unparseable body
ResponseFail_NoFinally ==
    /\ \E r \in inflight, kind \in FailKinds :
        /\ error' = ErrorMessage(kind)
        /\ inflight' = inflight \ {r}
        /\ ev' = [Event("response_fail", r, TRUE) EXCEPT !.fail = kind]
    /\ UNCHANGED <<isSearching, results, resultsOf, searchHistory, storage, currentSearchMode,
                   nextId, now, barVars, listVars, detVars, viewVars, sideVars>>
ResponseFail ==
    /\ \E r \in inflight, kind \in FailKinds :
        /\ error' = ErrorMessage(kind)
        /\ inflight' = inflight \ {r}
        /\ ev' = [Event("response_fail", r, TRUE) EXCEPT !.fail = kind]
    /\ isSearching' = FALSE
    /\ UNCHANGED <<results, resultsOf, searchHistory, storage, currentSearchMode, nextId, now,
                   barVars, listVars, detVars, viewVars, sideVars>>

Next ==
    \/ PatternChange
    \/ ClueChange
    \/ LengthChange
    \/ ModeRadio
    \/ ToggleHistory
    \/ CloseHistory
    \/ Submit
    \/ HistoryClick
    \/ ResponseOk
    \/ ResponseFail

Spec == Init /\ [][Next]_vars

\* The session started with an empty storage, where every fetch made settles:
\* the service answers or the transport fails
InitLive ==
    /\ Init
    /\ storage = NoKey

LiveSpec == InitLive /\ [][Next]_vars /\ WF_vars(ResponseOk \/ ResponseFail)

----------------------------------------------------------------------------
(* detectInputType on drawn inputs *)

\* a, Z, _, *, space, tab, no-break space, n with tilde, e with acute, 1, ?
DetectAlphabet == {97, 90, 95, 42, 32, 9, 160, 241, 233, 49, 63}

RECURSIVE TextsUpTo(_)
TextsUpTo(n) ==
    IF n = 0 THEN { <<>> }
    ELSE LET shorter == TextsUpTo(n - 1) IN
         shorter \cup { Append(t, c) : t \in { u \in shorter : Len(u) = n - 1 },
                                       c \in DetectAlphabet }

InitDetect ==
    /\ storage = NoKey
    /\ searchHistory = LoadHistory(storage)
    /\ results = <<>>
    /\ resultsOf = 0
    /\ isSearching = FALSE
    /\ error = Null
    /\ currentSearchMode = "pattern"
    /\ inflight = {}
    /\ nextId = 1
    /\ now = MAX_HISTORY_ITEMS + 1
    /\ searchMode = "pattern"
    /\ pattern = <<>>
    /\ length = <<>>
    /\ clue = <<>>
    /\ showHistory = FALSE
    /\ ev = EditEvent("init")
    /\ dInput \in TextsUpTo(MaxInputLen)
    /\ dMode \in SearchModes
    /\ dResult = "none"
    /\ filters = InitFilters
    /\ showFilters = FALSE
    /\ selectedDefinition = NoSelection
    /\ curated = NoView
    /\ mount = NoMount
    /\ csv = NoFile

\* detectInputType(dInput) is called while searchMode is dMode
Detect ==
    /\ dResult = "none"
    /\ dResult' = detectInputType(dInput, dMode)
    /\ UNCHANGED <<appVars, barVars, listVars, viewVars, sideVars, ev, dInput, dMode>>

NextDetect == Detect

DetectSpec == InitDetect /\ [][NextDetect]_vars

----------------------------------------------------------------------------
(* ResultsList under the searches of App and the edits of its controls *)

\* The result sets of the searches: no result; SOL, CASA, GATOS (lengths 3 to 5);
\* or CASO alone.
ListResultSets ==
    { <<>>,
      << WordResult(<<83, 79, 76>>, 6000, "Astro", "local"),
         WordResult(<<67, 65, 83, 65>>, 8234, "Edificio para habitar", "local"),
         WordResult(<<71, 65, 84, 79, 83>>, 9000, "", "rae") >>,
      << WordResult(<<67, 65, 83, 79>>, 6000, "", "local") >> }

\* The list and its controls are rendered: neither the spinner nor the empty
\* state is returned
ListRendered == ~isSearching /\ Len(results) > 0

\* the filter button
ToggleFilters ==
    /\ ListRendered
    /\ showFilters' = ~showFilters
    /\ ev' = EditEvent("filter")
    /\ UNCHANGED <<appVars, barVars, filters, selectedDefinition, detVars, viewVars, sideVars>>

\* onChange of the minimum length range input (rendered in definition mode)
SetMinLength ==
    /\ ListRendered
    /\ showFilters
    /\ currentSearchMode = "definition"
    /\ \E value \in lengthRange(results).min .. lengthRange(results).max :
        filters' = [filters EXCEPT !.minLength = value]
    /\ ev' = EditEvent("filter")
    /\ UNCHANGED <<appVars, barVars, showFilters, selectedDefinition, detVars, viewVars, sideVars>>

\* onChange of the maximum length range input (rendered in definition mode)
SetMaxLength ==
    /\ ListRendered
    /\ showFilters
    /\ currentSearchMode = "definition"
    /\ \E value \in lengthRange(results).min .. lengthRange(results).max :
        filters' = [filters EXCEPT !.maxLength = value]
    /\ ev' = EditEvent("filter")
    /\ UNCHANGED <<appVars, barVars, showFilters, selectedDefinition, detVars, viewVars, sideVars>>

\* The options of the sort select in a mode
SortChoices_All(m) == SortOptions
SortChoices(m) ==
    IF m = "pattern" THEN {"found", "alphabetical"} ELSE {"score", "alphabetical", "length"}

\* onChange of the sort select
SetSortBy ==
    /\ ListRendered
    /\ showFilters
    /\ \E value \in SortChoices(currentSearchMode) :
        filters' = [filters EXCEPT !.sortBy = value]
    /\ ev' = EditEvent("filter")
    /\ UNCHANGED <<appVars, barVars, showFilters, selectedDefinition, detVars, viewVars, sideVars>>

\* onChange of the "Mostrar definiciones" checkbox
ToggleShowDefinitions ==
    /\ ListRendered
    /\ showFilters
    /\ filters' = [filters EXCEPT !.showDefinitions = ~filters.showDefinitions]
    /\ ev' = EditEvent("filter")
    /\ UNCHANGED <<appVars, barVars, showFilters, selectedDefinition, detVars, viewVars, sideVars>>

\* onClick of a result of the list
resultOnClick_Always(result, selected) == Selection(result.word, result.definition)
resultOnClick(result, selected) ==
    IF result.definition # "" THEN Selection(result.word, result.definition) ELSE selected

\* A click on one of the results the list shows
ClickResult ==
    /\ ListRendered
    /\ LET shown == filteredAndSortedResults(results, filters, currentSearchMode) IN
       \E index \in 1 .. Len(shown) :
           /\ selectedDefinition' = resultOnClick(shown[index], selectedDefinition)
           /\ ev' = [EditEvent("click") EXCEPT !.clicked = shown[index],
                                               !.preSelected = selectedDefinition]
    /\ UNCHANGED <<appVars, barVars, filters, showFilters, detVars, viewVars, sideVars>>

\* onClick of the modal's backdrop and of its close button; the modal is part
\* of the list's markup
CloseDefinition ==
    /\ ListRendered
    /\ selectedDefinition.open
    /\ selectedDefinition' = NoSelection
    /\ ev' = [EditEvent("close") EXCEPT !.preSelected = selectedDefinition]
    /\ UNCHANGED <<appVars, barVars, filters, showFilters, detVars, viewVars, sideVars>>

ListResponseOk == ResponseOkWith(ListResultSets)

InitList ==
    /\ Init
    /\ storage = NoKey

NextList ==
    \/ PatternChange
    \/ ClueChange
    \/ ModeRadio
    \/ Submit
    \/ ListResponseOk
    \/ ResponseFail
    \/ ToggleFilters
    \/ SetMinLength
    \/ SetMaxLength
    \/ SetSortBy
    \/ ToggleShowDefinitions
    \/ ClickResult
    \/ CloseDefinition

ListSpec == InitList /\ [][NextList]_vars

\* The sort select under searches, history selections and mode changes, from
\* an empty or a stored history
NextSort ==
    \/ PatternChange
    \/ ClueChange
    \/ ModeRadio
    \/ Submit
    \/ ToggleHistory
    \/ HistoryClick
    \/ ListResponseOk
    \/ ResponseFail
    \/ ToggleFilters
    \/ SetSortBy

SortSpec == Init /\ [][NextSort]_vars

----------------------------------------------------------------------------
(* filteredAndSortedResults on drawn results and filters *)

\* The words the result sets are made of: CASA 0.8234, CASO 0.6, COSA 0.9, SOL 0.6
\* and GATOS 0.9 (lengths 3 to 5, two pairs of equal scores).
ViewWords ==
    { WordResult(<<67, 65, 83, 65>>, 8234, "Edificio para habitar", "local"),
      WordResult(<<67, 65, 83, 79>>, 6000, "", "local"),
      WordResult(<<67, 79, 83, 65>>, 9000, "Objeto", "rae"),
      WordResult(<<83, 79, 76>>, 6000, "", "local"),
      WordResult(<<71, 65, 84, 79, 83>>, 9000, "Felinos", "rae") }

RECURSIVE ResultsUpTo(_)
ResultsUpTo(n) ==
    IF n = 0 THEN { <<>> }
    ELSE LET shorter == ResultsUpTo(n - 1) IN
         shorter \cup { Append(rs, r) : rs \in { u \in shorter : Len(u) = n - 1 },
                                        r \in ViewWords }

\* The filter states: the range bounds at their initial values or at a word
\* length, in either order.
ViewFilters ==
    [minLength : {0, 3, 4, 5}, maxLength : {3, 4, 5, 20},
     showDefinitions : BOOLEAN, sortBy : SortOptions]

InitView ==
    /\ storage = NoKey
    /\ searchHistory = LoadHistory(storage)
    /\ results \in ResultsUpTo(MaxResults)
    /\ resultsOf = 0
    /\ isSearching = FALSE
    /\ error = Null
    /\ currentSearchMode \in SearchModes
    /\ inflight = {}
    /\ nextId = 1
    /\ now = MAX_HISTORY_ITEMS + 1
    /\ searchMode = "pattern"
    /\ pattern = <<>>
    /\ length = <<>>
    /\ clue = <<>>
    /\ showHistory = FALSE
    /\ ev = EditEvent("init")
    /\ dInput = <<>>
    /\ dMode = "pattern"
    /\ dResult = "none"
    /\ filters \in ViewFilters
    /\ showFilters = FALSE
    /\ selectedDefinition = NoSelection
    /\ curated = NoView
    /\ mount = NoMount
    /\ csv = NoFile

\* the useMemo of filteredAndSortedResults runs on the props and the filters
ComputeView ==
    /\ ~curated.done
    /\ curated' = [done |-> TRUE,
                   items |-> filteredAndSortedResults(results, filters, currentSearchMode)]
    /\ UNCHANGED <<appVars, barVars, listVars, detVars, sideVars, ev>>

\* downloadCSV, from the CSV button of the rendered list
downloadCSV ==
    /\ ListRendered
    /\ ~csv.saved
    /\ csv' = [saved |-> TRUE,
               text |-> csvText(filteredAndSortedResults(results, filters, currentSearchMode))]
    /\ UNCHANGED <<appVars, barVars, listVars, detVars, viewVars, ev, mount>>

NextView ==
    \/ ComputeView
    \/ downloadCSV

ViewSpec == InitView /\ [][NextView]_vars

----------------------------------------------------------------------------
(* handleSubmit and the request of handleSearch, on every content of the form *)

\* The contents of the form fields handleSubmit is applied to: the pattern box
\* empty, " ", "c_s_", "a b" or " a"; the clue box empty, " " or "g"; the length
\* box empty, "0" (what handleHistoryClick writes for an item without length) or "5".
SubmitPatterns == { <<>>, <<32>>, <<99, 95, 115, 95>>, <<97, 32, 98>>, <<32, 97>> }
SubmitClues == { <<>>, <<32>>, <<103>> }
SubmitLengths == { <<>>, <<48>>, <<53>> }

\* What App shows when the form is submitted: nothing yet, the results of an
\* earlier search, or its error.
SubmitShown ==
    { [results |-> rs, error |-> Null] : rs \in ResultSets }
    \cup { [results |-> <<>>, error |-> ErrorMessage("network")] }

InitSubmit ==
    /\ storage \in InitStorages
    /\ searchHistory = LoadHistory(storage)
    /\ \E shown \in SubmitShown :
        /\ results = shown.results
        /\ error = shown.error
    /\ resultsOf = 0
    /\ isSearching = FALSE
    /\ currentSearchMode \in SearchModes
    /\ inflight = {}
    /\ nextId = 1
    /\ now = MAX_HISTORY_ITEMS + 1
    /\ searchMode \in SearchModes
    /\ pattern \in SubmitPatterns
    /\ length \in SubmitLengths
    /\ clue \in SubmitClues
    /\ showHistory = FALSE
    /\ ev = EditEvent("init")
    /\ dInput = <<>>
    /\ dMode = "pattern"
    /\ dResult = "none"
    /\ filters = [InitFilters EXCEPT !.sortBy = DefaultSort(currentSearchMode)]
    /\ showFilters = FALSE
    /\ selectedDefinition = NoSelection
    /\ curated = NoView
    /\ mount = NoMount
    /\ csv = NoFile

\* handleSubmit runs once on the form
SubmitOnce ==
    /\ ev.kind = "init"
    /\ SubmitEvent

NextSubmit == SubmitOnce

SubmitSpec == InitSubmit /\ [][NextSubmit]_vars

----------------------------------------------------------------------------
(* The mount effect of App on every content of localStorage *)

\* What localStorage can hold under the key at mount: the read throws; the key
\* is missing; a text JSON.stringify wrote (kept as its structure); or any
\* other text (kept as its characters)
Unreadable ==
    [readable |-> FALSE, present |-> FALSE, form |-> "history", items |-> <<>>, text |-> <<>>]
Missing ==
    [readable |-> TRUE, present |-> FALSE, form |-> "history", items |-> <<>>, text |-> <<>>]
StoredHistory(hist) ==
    [readable |-> TRUE, present |-> TRUE, form |-> "history", items |-> JSONstringify(hist),
     text |-> <<>>]
StoredRaw(text) ==
    [readable |-> TRUE, present |-> TRUE, form |-> "raw", items |-> <<>>, text |-> text]

\* JSON.parse of a text that is not a stringified history: the texts null, {},
\* "", 0 and [] parse to a value of their type, any other text of the model
\* throws a SyntaxError
JSONparseRaw(text) ==
    CASE text = <<110, 117, 108, 108>> -> JSValue("null", <<>>)
      [] text = <<123, 125>> -> JSValue("object", <<>>)
      [] text = <<34, 34>> -> JSValue("string", <<>>)
      [] text = <<48>> -> JSValue("number", <<>>)
      [] text = <<91, 93>> -> Array(<<>>)
      [] OTHER -> JSValue("SyntaxError", <<>>)

\* The mount effect: the value the searchHistory state holds after it, and
\* whether the catch block logged an error. The state starts as [] and
\* setSearchHistory receives whatever JSON.parse returned.
loadHistoryEffect(st) ==
    IF ~st.readable THEN [history |-> Array(<<>>), logged |-> TRUE]
    ELSE IF ~st.present \/ (st.form = "raw" /\ st.text = <<>>)
    THEN [history |-> Array(<<>>), logged |-> FALSE]
    ELSE IF st.form = "history"
    THEN [history |-> Array(JSONparse(st.items)), logged |-> FALSE]
    ELSE LET parsed == JSONparseRaw(st.text) IN
         IF parsed.type = "SyntaxError"
         THEN [history |-> Array(<<>>), logged |-> TRUE]
         ELSE [history |-> parsed, logged |-> FALSE]

\* The histories a previous session can have stored: up to MaxStoredItems of
\* these searches
MaxStoredItems == 2

StoredItems ==
    { HistoryItem(<<97>>, 0, <<>>, "pattern", 1),
      HistoryItem(<<98>>, 0, <<>>, "pattern", 2),
      HistoryItem(<<>>, 5, <<>>, "pattern", 3),
      HistoryItem(<<>>, 0, <<103>>, "definition", 4),
      HistoryItem(<<>>, 5, <<103>>, "definition", 5) }

StoredHistories == UNION { [1..n -> StoredItems] : n \in 0..MaxStoredItems }

\* The other texts: the empty text, null, {}, "", 0, [], and the unparseable
\* [, x and undefined
RawTexts ==
    { <<>>, <<110, 117, 108, 108>>, <<123, 125>>, <<34, 34>>, <<48>>, <<91, 93>>,
      <<91>>, <<120>>, <<117, 110, 100, 101, 102, 105, 110, 101, 100>> }

LoadStorages ==
    {Unreadable, Missing}
        \cup { StoredHistory(hist) : hist \in StoredHistories }
        \cup { StoredRaw(text) : text \in RawTexts }

InitLoad ==
    /\ storage \in LoadStorages
    /\ searchHistory = <<>>
    /\ results = <<>>
    /\ resultsOf = 0
    /\ isSearching = FALSE
    /\ error = Null
    /\ currentSearchMode = "pattern"
    /\ inflight = {}
    /\ nextId = 1
    /\ now = MAX_HISTORY_ITEMS + 1
    /\ searchMode = "pattern"
    /\ pattern = <<>>
    /\ length = <<>>
    /\ clue = <<>>
    /\ showHistory = FALSE
    /\ ev = EditEvent("init")
    /\ dInput = <<>>
    /\ dMode = "pattern"
    /\ dResult = "none"
    /\ filters = InitFilters
    /\ showFilters = FALSE
    /\ selectedDefinition = NoSelection
    /\ curated = NoView
    /\ mount = NoMount
    /\ csv = NoFile

\* the mount effect runs
MountEffect ==
    /\ mount.phase = "start"
    /\ LET loaded == loadHistoryEffect(storage) IN
       mount' = [phase |-> "loaded", history |-> loaded.history, logged |-> loaded.logged]
    /\ UNCHANGED <<appVars, barVars, listVars, detVars, viewVars, ev, csv>>

\* SearchBar renders with the loaded value as its searchHistory prop: it reads
\* searchHistory.length, which throws on null
RenderSearchBar ==
    /\ mount.phase = "loaded"
    /\ mount' = [mount EXCEPT !.phase = IF mount.history.type = "null" THEN "crashed"
                                        ELSE "rendered"]
    /\ UNCHANGED <<appVars, barVars, listVars, detVars, viewVars, ev, csv>>

NextLoad ==
    \/ MountEffect
    \/ RenderSearchBar

LoadSpec == InitLoad /\ [][NextLoad]_vars

----------------------------------------------------------------------------
(* Properties *)

InSeq(e, s) == \E i \in 1..Len(s) : s[i] = e

NoDuplicateKeys(hist) ==
    \A i, j \in 1..Len(hist) : i # j => KeyOf(hist[i]) # KeyOf(hist[j])

\* the key of the search r is the key of an entry of hist
KeyIn(r, hist) == \E i \in 1..Len(hist) : SameKey(hist[i], r.pattern, r.clue, r.mode)

\* the entry is the one the search r records
RecordsSearch(item, r) ==
    /\ item.pattern = r.pattern
    /\ item.length = r.length
    /\ item.clue = r.clue
    /\ item.mode = r.mode

\* the last event recorded a successful search
Recorded == ev.kind = "response_ok"

\* C1: no two entries of the history list, nor of the stored array, have the
\* same identity key (pattern, clue, mode).
C1_NoDuplicateKeys ==
    /\ NoDuplicateKeys(searchHistory)
    /\ storage.present => NoDuplicateKeys(JSONparse(storage.text))

\* C1 witness: a search was recorded whose key was already in the list, with
\* another length than the entry it replaces.
C1_Witness ==
    /\ Recorded
    /\ \E i \in 1..Len(ev.preHistory) :
          /\ SameKey(ev.preHistory[i], ev.req.pattern, ev.req.clue, ev.req.mode)
          /\ ev.preHistory[i].length # ev.req.length
    /\ Len(searchHistory) > 1

\* C2: the history list and the stored array never hold more than
\* MAX_HISTORY_ITEMS entries, and recording an entry with a new key into a full
\* list leaves MAX_HISTORY_ITEMS entries, having dropped the last of the list and
\* nothing else.
C2_BoundedOldestEvicted ==
    /\ Len(searchHistory) <= MAX_HISTORY_ITEMS
    /\ storage.present => Len(storage.text) <= MAX_HISTORY_ITEMS
    /\ (Recorded /\ Len(ev.preHistory) = MAX_HISTORY_ITEMS /\ ~KeyIn(ev.req, ev.preHistory))
         => /\ Len(searchHistory) = MAX_HISTORY_ITEMS
            /\ ~InSeq(ev.preHistory[MAX_HISTORY_ITEMS], searchHistory)
            /\ \A i \in 1..(MAX_HISTORY_ITEMS - 1) : InSeq(ev.preHistory[i], searchHistory)

\* position the i-th entry of hist takes once the search r is recorded in hist
PositionAfterRecord(hist, i, r) ==
    1 + Cardinality({ j \in 1..i : ~SameKey(hist[j], r.pattern, r.clue, r.mode) })

\* C3: an entry leaves the history only when an entry with the same key is
\* recorded or when it falls beyond position MAX_HISTORY_ITEMS; recording one
\* successful search never drops the entry of another one with a different key.
C3_OnlyDedupOrTruncation ==
    Recorded =>
        \A i \in 1..Len(ev.preHistory) :
            \/ InSeq(ev.preHistory[i], searchHistory)
            \/ SameKey(ev.preHistory[i], ev.req.pattern, ev.req.clue, ev.req.mode)
            \/ PositionAfterRecord(ev.preHistory, i, ev.req) > MAX_HISTORY_ITEMS

\* C4 as stated: a successful search is recorded at index 0 with the pattern,
\* length, clue and mode that were dispatched, and localStorage then holds the
\* same list as the state.
C4_RecordedAndStored ==
    Recorded =>
        /\ Len(searchHistory) >= 1
        /\ RecordsSearch(searchHistory[1], ev.req)
        /\ storage.present
        /\ JSONparse(storage.text) = searchHistory

\* C4 amended: a successful search is recorded at index 0 with the pattern,
\* length, clue and mode that were dispatched; localStorage then holds the same
\* list as the state if the write succeeded, and what it held before if the write
\* threw.
C4_RecordedAndStoredIfWritten ==
    Recorded =>
        /\ Len(searchHistory) >= 1
        /\ RecordsSearch(searchHistory[1], ev.req)
        /\ ev.writeOk => (storage.present /\ JSONparse(storage.text) = searchHistory)
        /\ ~ev.writeOk => storage = ev.preStorage

\* C4 witness: a definition search dispatched by the form was recorded in a
\* history that held other entries, and written.
C4_Witness ==
    /\ Recorded
    /\ ev.writeOk
    /\ Len(searchHistory) > 1
    /\ ev.req.mode = "definition"
    /\ ev.req.clue # <<>>
    /\ storage.present
    /\ JSONparse(storage.text) = searchHistory

\* C4 witness of the amended case: the write threw.
C4_WitnessWriteFailed ==
    /\ Recorded
    /\ ~ev.writeOk
    /\ storage.present
    /\ JSONparse(storage.text) # searchHistory

\* C5: when a search fails the history list and the stored history are unchanged,
\* an error message is set, the result set is empty and the request is not
\* outstanding again.
C5_FailureLeavesHistory ==
    ev.kind = "response_fail" =>
        /\ searchHistory = ev.preHistory
        /\ storage = ev.preStorage
        /\ error # Null
        /\ results = <<>>
        /\ ev.req \notin inflight

\* the entries of hist whose key is not the key of the search r, in order
Others(hist, r) ==
    LET Other(item) == ~SameKey(item, r.pattern, r.clue, r.mode) IN SelectSeq(hist, Other)

\* C6: recording an entry whose key is already in the history replaces the old
\* entry: the length of the list is unchanged, the entry is first and carries the
\* new timestamp and length, and the other entries keep their relative order.
C6_DedupByReplace ==
    (Recorded /\ KeyIn(ev.req, ev.preHistory)) =>
        /\ Len(searchHistory) = Len(ev.preHistory)
        /\ RecordsSearch(searchHistory[1], ev.req)
        /\ \A i \in 1..Len(ev.preHistory) :
              searchHistory[1].timestamp > ev.preHistory[i].timestamp
        /\ Tail(searchHistory) = Others(ev.preHistory, ev.req)

\* C7: while a search request is outstanding the searching flag is true and the
\* submit control is disabled, and a form submission dispatches no request while
\* another one is outstanding.
C7_SearchingWhileOutstanding ==
    /\ inflight # {} => (isSearching /\ SubmitDisabled)
    /\ ev.kind = "submit" => inflight = {ev.req}

\* C8: dispatching a search clears the result set, and a non-empty result set is
\* the response, whole, of the most recently dispatched search.
C8_NoStaleResults ==
    /\ ev.kind \in {"submit", "history"} => results = <<>>
    /\ results # <<>> => (resultsOf = nextId - 1 /\ results \in ResultSets)

----------------------------------------------------------------------------
(* Properties of detectInputType *)

\* a letter: ASCII, or an accented vowel, u with diaeresis or n with tilde
IsLetter(c) ==
    \/ c \in (65..90) \cup (97..122)
    \/ c \in {193, 201, 205, 209, 211, 218, 220, 225, 233, 237, 241, 243, 250, 252}

OnlyLettersAndPlaceholders(s) == \A i \in 1..Len(s) : IsLetter(s[i]) \/ s[i] \in {95, 42}

HasWhiteSpace(s) == \E i \in 1..Len(s) : IsWhiteSpace(s[i])

\* C9: an input whose trimmed text is not empty, has no white space and consists
\* of letters, '_' and '*' only is detected as a pattern, whatever the current mode.
C9_LettersArePattern ==
    (/\ dResult # "none"
     /\ Trim(dInput) # <<>>
     /\ ~HasWhiteSpace(Trim(dInput))
     /\ OnlyLettersAndPlaceholders(Trim(dInput)))
        => dResult = "pattern"

\* C10: an input whose trimmed text is empty leaves the current mode, and one
\* whose trimmed text holds white space or a character that is no letter, '_' or
\* '*' is detected as a definition, whatever the current mode.
C10_EmptyOrDefinition ==
    dResult # "none" =>
        /\ Trim(dInput) = <<>> => dResult = dMode
        /\ (/\ Trim(dInput) # <<>>
            /\ (HasWhiteSpace(Trim(dInput)) \/ ~OnlyLettersAndPlaceholders(Trim(dInput))))
              => dResult = "definition"

\* C10 witness: in pattern mode, a text with a tab between letters was detected as
\* a definition.
C10_Witness ==
    /\ dResult = "definition"
    /\ dMode = "pattern"
    /\ dInput = <<97, 9, 97>>

\* C10 witness of the empty case: white space only, in definition mode.
C10_WitnessEmpty ==
    /\ dResult = "definition"
    /\ dMode = "definition"
    /\ dInput = <<32, 160>>

----------------------------------------------------------------------------
(* Properties of handleSubmit and of the request *)

Submitted == ev.kind \in {"submit", "submit_noop"}

\* C11: when the trimmed pattern field is not empty, the search handleSubmit
\* dispatches has the detected mode; if that is definition while the selected
\* mode is pattern, the text becomes the clue and the pattern is empty.
C11_DetectedModeAndMove ==
    (Submitted /\ Trim(pattern) # <<>>) =>
        LET detected == detectInputType(Trim(pattern), searchMode) IN
        /\ ev.kind = "submit"
        /\ ev.req.mode = detected
        /\ (detected = "definition" /\ searchMode = "pattern") =>
               /\ ev.req.clue = Trim(pattern)
               /\ ev.req.pattern = <<>>

\* "a b" submitted in pattern mode went out as the clue of a definition search
C11_Witness ==
    /\ ev.kind = "submit"
    /\ searchMode = "pattern"
    /\ pattern = <<97, 32, 98>>
    /\ ev.req.mode = "definition"
    /\ ev.req.clue = <<97, 32, 98>>
    /\ ev.req.pattern = <<>>

\* C13: a submit with empty pattern, empty clue and no length dispatches no
\* request and leaves results, error, searching flag, results mode, history and
\* stored history as they were.
C13_EmptySubmitIsNoOp ==
    (Submitted /\ Trim(pattern) = <<>> /\ Trim(clue) = <<>> /\ length = <<>>) =>
        /\ ev.kind = "submit_noop"
        /\ inflight = {}
        /\ nextId = 1
        /\ results = ev.preResults
        /\ error = ev.preError
        /\ isSearching = ev.preSearching
        /\ currentSearchMode = ev.preMode
        /\ searchHistory = ev.preHistory
        /\ storage = ev.preStorage

\* the empty form was submitted while results were shown
C13_Witness ==
    /\ ev.kind = "submit_noop"
    /\ pattern = <<>>
    /\ clue = <<>>
    /\ length = <<>>
    /\ results # <<>>
    /\ Len(searchHistory) = MAX_HISTORY_ITEMS

BareLength ==
    /\ Trim(pattern) = <<>>
    /\ (Trim(clue) = <<>> \/ searchMode # "definition")
    /\ ParseIntOr0(length) > 0
C12_BareLengthIsValidQuery ==
    (BareLength /\ ~isSearching) =>
        LET s == handleSubmit(searchMode, pattern, length, clue) IN
        /\ ~SubmitDisabled
        /\ s.calls
        /\ s.mode = "pattern"
        /\ s.pattern = <<>>
        /\ s.length = ParseIntOr0(length)

\* C15: the request follows the resolved mode. A pattern search posts to the
\* pattern endpoint exactly those of pattern, length and clue that are not empty
\* (above 0); a definition search posts to the definition endpoint exactly those
\* of clue and max_length, and never a pattern.
C15_RequestFollowsMode ==
    ev.kind = "submit" =>
        LET r == ev.req
            b == ev.req.body
        IN
        /\ r.mode = "pattern" =>
               /\ r.endpoint = "/api/solve"
               /\ b.keys \subseteq {"pattern", "length", "clue"}
               /\ ("pattern" \in b.keys) <=> (r.pattern # <<>>)
               /\ ("length" \in b.keys) <=> (r.length > 0)
               /\ ("clue" \in b.keys) <=> (r.clue # <<>>)
               /\ "pattern" \in b.keys => b.pattern = r.pattern
               /\ "length" \in b.keys => b.length = r.length
               /\ "clue" \in b.keys => b.clue = r.clue
        /\ r.mode = "definition" =>
               /\ r.endpoint = "/api/solve-by-definition"
               /\ b.keys \subseteq {"clue", "max_length"}
               /\ ("clue" \in b.keys) <=> (r.clue # <<>>)
               /\ ("max_length" \in b.keys) <=> (r.length > 0)
               /\ "clue" \in b.keys => b.clue = r.clue
               /\ "max_length" \in b.keys => b.max_length = r.length

\* pattern "c_s_" with length 0 and no clue was posted as {pattern: "c_s_"}
C15_Witness ==
    /\ ev.kind = "submit"
    /\ ev.req.mode = "pattern"
    /\ ev.req.pattern = <<99, 95, 115, 95>>
    /\ ev.req.length = 0
    /\ ev.req.clue = <<>>
    /\ ev.req.body.keys = {"pattern"}

\* a definition search was posted while the pattern field held "a b"
C15_WitnessDefinition ==
    /\ ev.kind = "submit"
    /\ ev.req.mode = "definition"
    /\ ev.req.pattern = <<97, 32, 98>>
    /\ ev.req.body.keys = {"clue", "max_length"}

----------------------------------------------------------------------------
(* Properties of filteredAndSortedResults *)

\* number of occurrences of e in s
Count(e, s) == Cardinality({ i \in 1..Len(s) : s[i] = e })

Items(s) == { s[i] : i \in 1..Len(s) }

\* t holds the items of s, each as many times
IsPermutation(t, s) ==
    /\ Len(t) = Len(s)
    /\ \A e \in Items(s) \cup Items(t) : Count(e, t) = Count(e, s)

\* C16: in pattern mode the list shown has as many items as the result set and is
\* a permutation of it, whatever minLength and maxLength hold.
C16_PatternViewIsPermutation ==
    (curated.done /\ currentSearchMode = "pattern") =>
        /\ Len(curated.items) = Len(results)
        /\ IsPermutation(curated.items, results)

\* three results of lengths 4, 3 and 5 are all shown in pattern mode while
\* minLength is above maxLength
C16_Witness ==
    /\ curated.done
    /\ currentSearchMode = "pattern"
    /\ filters.minLength = 5
    /\ filters.maxLength = 3
    /\ Len(results) = MaxResults
    /\ WordLengths(results) = {3, 4, 5}
    /\ Len(curated.items) = MaxResults

\* C17: in definition mode the list shown holds exactly the results whose word
\* length is within [minLength, maxLength], each as many times as in the results.
C17_DefinitionViewIsRangeFilter ==
    (curated.done /\ currentSearchMode = "definition") =>
        \A e \in Items(results) \cup Items(curated.items) :
            Count(e, curated.items) =
                IF filters.minLength <= Len(e.word) /\ Len(e.word) <= filters.maxLength
                THEN Count(e, results) ELSE 0

\* a result of length 4 sent twice is shown twice, one of length 3 is filtered out
C17_Witness ==
    /\ curated.done
    /\ currentSearchMode = "definition"
    /\ filters.minLength = 4
    /\ filters.maxLength = 4
    /\ Len(results) = MaxResults
    /\ WordLengths(results) = {3, 4}
    /\ Len(curated.items) = 2
    /\ curated.items[1] = curated.items[2]

\* a comes before b, or is b, in the order of the dictionary
AlphabeticalLeq(a, b) ==
    \E k \in 0..Len(a) :
        /\ k <= Len(b)
        /\ \A i \in 1..k : a[i] = b[i]
        /\ \/ k = Len(a)
           \/ (k < Len(b) /\ a[k + 1] < b[k + 1])

\* the results the mode and the range keep, in the order of the service
Kept ==
    LET InRange(r) == filters.minLength <= Len(r.word) /\ Len(r.word) <= filters.maxLength IN
    IF currentSearchMode = "definition" THEN SelectSeq(results, InRange) ELSE results

\* C18: the list shown is a permutation of the filtered results, ordered by
\* sortBy: scores never increase, words ascend, lengths never decrease, or the
\* order of the service is kept.
C18_ViewOrderedBySortBy ==
    curated.done =>
        LET v == curated.items IN
        /\ IsPermutation(v, Kept)
        /\ filters.sortBy = "score" =>
               \A i \in 1..(Len(v) - 1) : v[i].score >= v[i + 1].score
        /\ filters.sortBy = "alphabetical" =>
               \A i \in 1..(Len(v) - 1) : AlphabeticalLeq(v[i].word, v[i + 1].word)
        /\ filters.sortBy = "length" =>
               \A i \in 1..(Len(v) - 1) : Len(v[i].word) <= Len(v[i + 1].word)
        /\ filters.sortBy = "found" => v = Kept

\* CASA 0.8234, CASO 0.6, COSA 0.9 sorted by score are shown as COSA, CASA, CASO
C18_Witness ==
    /\ curated.done
    /\ filters.sortBy = "score"
    /\ Len(results) = 3
    /\ results[1].word = <<67, 65, 83, 65>>
    /\ results[2].word = <<67, 65, 83, 79>>
    /\ results[3].word = <<67, 79, 83, 65>>
    /\ Len(curated.items) = 3
    /\ curated.items[1].word = <<67, 79, 83, 65>>
    /\ curated.items[2].word = <<67, 65, 83, 65>>
    /\ curated.items[3].word = <<67, 65, 83, 79>>

\* COSA, CASO, CASA sorted alphabetically are shown as CASA, CASO, COSA
C18_WitnessAlphabetical ==
    /\ curated.done
    /\ filters.sortBy = "alphabetical"
    /\ Len(results) = 3
    /\ results[1].word = <<67, 79, 83, 65>>
    /\ results[2].word = <<67, 65, 83, 79>>
    /\ results[3].word = <<67, 65, 83, 65>>
    /\ Len(curated.items) = 3
    /\ curated.items[1].word = <<67, 65, 83, 65>>
    /\ curated.items[2].word = <<67, 65, 83, 79>>
    /\ curated.items[3].word = <<67, 79, 83, 65>>

----------------------------------------------------------------------------
(* Properties of the filter state *)

\* C19: minLength never exceeds maxLength, whatever the user edits, whatever
\* results arrive and however the mode changes.
C19_MinAtMostMax == filters.minLength <= filters.maxLength

\* C20: when a result set that is not empty arrives, minLength and maxLength
\* become the least and the greatest word length of that set, whatever they were,
\* so in definition mode the list shown right after holds every item of the set.
C20_ArrivalResetsRange ==
    (ev.kind = "response_ok" /\ Len(results) > 0) =>
        /\ \A i \in 1..Len(results) :
               filters.minLength <= Len(results[i].word)
               /\ Len(results[i].word) <= filters.maxLength
        /\ \E i \in 1..Len(results) : Len(results[i].word) = filters.minLength
        /\ \E i \in 1..Len(results) : Len(results[i].word) = filters.maxLength
        /\ IsPermutation(filteredAndSortedResults(results, filters, "definition"), results)

\* the user had narrowed the range to 5..5; CASO arrives for a definition search
\* and the range is 4..4
C20_Witness ==
    /\ ev.kind = "response_ok"
    /\ currentSearchMode = "definition"
    /\ ev.preFilters.minLength = 5
    /\ ev.preFilters.maxLength = 5
    /\ Len(results) = 1
    /\ results[1].word = <<67, 65, 83, 79>>
    /\ filters.minLength = 4
    /\ filters.maxLength = 4

\* C21: every step that changes the results mode sets sortBy to the default of
\* the new mode (found for pattern, score for definition) and leaves minLength,
\* maxLength and showDefinitions as they were.
C21_ModeChangeResetsSortOnly ==
    [][currentSearchMode' # currentSearchMode =>
          filters' = [filters EXCEPT
                         !.sortBy = IF currentSearchMode' = "pattern" THEN "found" ELSE "score"]
      ]_vars

\* a definition search was submitted while pattern results were sorted
\* alphabetically: sortBy is score, the range is the one of those results
C21_Witness ==
    /\ ev.kind = "submit"
    /\ ev.preMode = "pattern"
    /\ currentSearchMode = "definition"
    /\ ev.preFilters.sortBy = "alphabetical"
    /\ filters.sortBy = "score"
    /\ ev.preFilters.minLength = 3
    /\ filters.minLength = 3
    /\ filters.maxLength = 5
    /\ ~ev.preFilters.showDefinitions
    /\ ~filters.showDefinitions

\* C22: the definition viewer is closed or open with one word and its non-empty
\* definition; a click on a result with a definition opens it with that result's
\* word and definition whatever it held, a click on a result without one leaves it
\* as it was, and the backdrop or close button closes it.
C22_ViewerFollowsClicks ==
    /\ selectedDefinition = NoSelection
       \/ /\ selectedDefinition.open
          /\ selectedDefinition.definition # ""
          /\ selectedDefinition = Selection(selectedDefinition.word, selectedDefinition.definition)
    /\ ev.kind = "click" /\ ev.clicked.definition # "" =>
           selectedDefinition = Selection(ev.clicked.word, ev.clicked.definition)
    /\ ev.kind = "click" /\ ev.clicked.definition = "" => selectedDefinition = ev.preSelected
    /\ ev.kind = "close" => selectedDefinition = NoSelection

\* a click on CASA while the viewer showed SOL
C22_Witness ==
    /\ ev.kind = "click" /\ ev.preSelected.open
    /\ ev.preSelected.word = <<83, 79, 76>>
    /\ selectedDefinition = Selection(<<67, 65, 83, 65>>, "Edificio para habitar")

\* a click on GATOS, which has no definition, while the viewer showed SOL
C22_WitnessNoDefinition ==
    /\ ev.kind = "click" /\ ev.clicked.word = <<71, 65, 84, 79, 83>>
    /\ selectedDefinition = Selection(<<83, 79, 76>>, "Astro")

\* the viewer closed from open
C22_WitnessClosed == ev.kind = "close" /\ ev.preSelected.open /\ ~selectedDefinition.open

\* C23: after a click on a history item, the form holds the mode, pattern, length
\* and clue of one item h of the history as it was, a handleSearch call with h's
\* pattern, length, clue and mode is in flight with the endpoint and body those
\* values give, the results mode is h's mode, and sortBy is that mode's default
\* when the results mode has changed.
C23_HistoryClickRepeatsSearch ==
    ev.kind = "history" =>
        \E h \in Items(ev.preHistory) :
            /\ searchMode = h.mode /\ pattern = h.pattern /\ clue = h.clue
            /\ length = toString(h.length)
            /\ ev.req \in inflight
            /\ ev.req.pattern = h.pattern /\ ev.req.length = h.length
            /\ ev.req.clue = h.clue /\ ev.req.mode = h.mode
            /\ ev.req.endpoint = Endpoint(h.mode)
            /\ ev.req.body = RequestBody(h.pattern, h.length, h.clue, h.mode)
            /\ currentSearchMode = h.mode
            /\ ev.preMode # h.mode => filters.sortBy = DefaultSort(h.mode)

\* a click on a recorded definition search while the results mode was pattern
C23_Witness ==
    /\ ev.kind = "history" /\ ev.preMode = "pattern" /\ currentSearchMode = "definition"
    /\ ev.req.clue # <<>> /\ clue = ev.req.clue /\ searchMode = "definition"
    /\ ev.preFilters.sortBy = "found" /\ filters.sortBy = "score"

----------------------------------------------------------------------------
(* Properties of the storage of the history *)

\* The stored content is not a history: the empty text, a text that does not
\* parse, or a text that parses to something other than an array
BadContent(st) == st.readable /\ st.present /\ st.form = "raw" /\ st.text # <<91, 93>>

\* C24: after the mount effect the history is empty when the read of the storage
\* failed, the key is missing or the content is not a history, and no error
\* message is set.
C24_LoadFailureGivesEmptyHistory ==
    mount.phase # "start" /\ (~storage.readable \/ ~storage.present \/ BadContent(storage))
        => mount.history = Array(<<>>) /\ error = Null

\* C24, the write: a response recorded while the storage write throws sets no
\* error message and shows its results.
C24_WriteFailureIsSwallowed ==
    ev.kind = "response_ok" /\ ~ev.writeOk =>
        error = ev.preError /\ resultsOf = ev.req.id /\ ~isSearching

\* the unparseable text "[" was found and the history is empty
C24_WitnessUnparseable ==
    /\ mount.phase = "rendered" /\ storage = StoredRaw(<<91>>)
    /\ mount.history = Array(<<>>) /\ mount.logged

\* a stored history of two items was loaded
C24_WitnessLoaded ==
    /\ mount.phase = "rendered" /\ storage.form = "history"
    /\ mount.history.type = "array" /\ Len(mount.history.items) = MaxStoredItems

----------------------------------------------------------------------------
(* Properties of the failures of a search *)

\* The fixed texts of handleSearch: for a non-success response whose body does
\* not parse, and for a thrown value that is not an Error
FallbackMessages == {"Error desconocido", "Error al conectar con el servidor"}

\* C25: a response whose body does not parse, with a success status or not,
\* shows one of the fixed fallback texts, shows no results and writes no history;
\* a non-success response with a parseable body shows its detail.
C25_MalformedBodyShowsFallback ==
    ev.kind = "response_fail" =>
        /\ ev.fail \in {"http_unparseable", "ok_unparseable"} =>
               /\ error \in FallbackMessages
               /\ results = ev.preResults
               /\ searchHistory = ev.preHistory /\ storage = ev.preStorage
        /\ ev.fail = "http_detail" => error = "Patron invalido"

\* C25 without the text of the message: a response whose body does not parse
\* changes neither the results nor the history, and a non-success one shows the
\* fixed text or its detail.
C25_FailureKeepsResultsAndHistory ==
    ev.kind = "response_fail" =>
        /\ results = ev.preResults
        /\ searchHistory = ev.preHistory /\ storage = ev.preStorage
        /\ ev.fail = "http_unparseable" => error = "Error desconocido"
        /\ ev.fail = "http_detail" => error = "Patron invalido"

----------------------------------------------------------------------------
(* Properties of downloadCSV *)

\* The lines of a text
RECURSIVE SplitLines(_)
SplitLines(text) ==
    IF \A i \in 1..Len(text) : text[i] # 10 THEN <<text>>
    ELSE LET first == CHOOSE i \in 1..Len(text) :
                          text[i] = 10 /\ \A j \in 1..(i - 1) : text[j] # 10 IN
         <<SubSeq(text, 1, first - 1)>> \o SplitLines(SubSeq(text, first + 1, Len(text)))

\* The scores of the model as JavaScript prints them: 0.8234, 0.6, 0.9
PrintedScore(score) ==
    CASE score = 8234 -> <<48, 46, 56, 50, 51, 52>>
      [] score = 6000 -> <<48, 46, 54>>
      [] score = 9000 -> <<48, 46, 57>>

\* The row of an item: "word","score","definition","source"
ExpectedRow(r) ==
    <<34>> \o r.word \o <<34, 44, 34>> \o PrintedScore(r.score) \o <<34, 44, 34>>
        \o Chars(r.definition) \o <<34, 44, 34>> \o Chars(r.source) \o <<34>>

\* Palabra,Puntuación,Definición,Fuente
HeaderUnquoted ==
    <<80, 97, 108, 97, 98, 114, 97, 44, 80, 117, 110, 116, 117, 97, 99, 
      105, 243, 110, 44, 68, 101, 102, 105, 110, 105, 99, 105, 243, 110, 
      44, 70, 117, 101, 110, 116, 101>>

\* "Palabra","Puntuación","Definición","Fuente"
HeaderQuoted ==
    <<34, 80, 97, 108, 97, 98, 114, 97, 34, 44, 34, 80, 117, 110, 116, 117, 
      97, 99, 105, 243, 110, 34, 44, 34, 68, 101, 102, 105, 110, 105, 99, 
      105, 243, 110, 34, 44, 34, 70, 117, 101, 110, 116, 101, 34>>

\* "CASA","0.8234","Edificio para habitar","local"
CasaRow ==
    <<34, 67, 65, 83, 65, 34, 44, 34, 48, 46, 56, 50, 51, 52, 34, 44, 34, 
      69, 100, 105, 102, 105, 99, 105, 111, 32, 112, 97, 114, 97, 32, 104, 
      97, 98, 105, 116, 97, 114, 34, 44, 34, 108, 111, 99, 97, 108, 34>>

\* The lines after the header are the rows of the items of the list shown, in
\* its order, and the row of CASA is the one above
RowsFollowCuratedView ==
    LET shown == filteredAndSortedResults(results, filters, currentSearchMode)
        lines == SplitLines(csv.text) IN
    /\ Len(lines) = 1 + Len(shown)
    /\ \A i \in 1..Len(shown) :
        /\ lines[i + 1] = ExpectedRow(shown[i])
        /\ shown[i] = WordResult(<<67, 65, 83, 65>>, 8234, "Edificio para habitar", "local")
              => lines[i + 1] = CasaRow

\* C26 as stated: the file starts with the line Palabra,Puntuación,Definición,Fuente
\* and goes on with one quoted row per item of the list shown.
C26_HeaderUnquotedThenRows ==
    csv.saved => SplitLines(csv.text)[1] = HeaderUnquoted /\ RowsFollowCuratedView

\* C26: the file starts with the line "Palabra","Puntuación","Definición","Fuente",
\* every header cell quoted like the cells of the rows, and goes on with one
\* quoted row per item of the list shown (filtered and sorted), in its order.
C26_QuotedHeaderThenRows ==
    csv.saved => SplitLines(csv.text)[1] = HeaderQuoted /\ RowsFollowCuratedView

\* a definition search whose third result is CASA, exported as the first of two
\* rows: one result filtered out and the rest sorted
C26_Witness ==
    /\ csv.saved /\ currentSearchMode = "definition"
    /\ Len(results) = 3 /\ results[3].word = <<67, 65, 83, 65>>
    /\ Len(SplitLines(csv.text)) = 3
    /\ SplitLines(csv.text)[2] = CasaRow

\* C27: when every fetch settles, a searching flag that is true becomes false
\* again; the step that makes it false shows the results of the response it
\* handled or sets an error message; and the flag is false whenever no request
\* is outstanding.
C27_SearchResolves ==
    /\ isSearching ~> ~isSearching
    /\ [][isSearching /\ ~isSearching' =>
             \/ ev'.kind = "response_ok" /\ resultsOf' = ev'.req.id
             \/ ev'.kind = "response_fail" /\ error' # Null]_vars
    /\ [](inflight = {} => ~isSearching)

\* a response has just ended a search, with none left outstanding
C27_Witness ==
    /\ ev.kind \in {"response_ok", "response_fail"}
    /\ ev.preSearching /\ ~isSearching /\ inflight = {}

----------------------------------------------------------------------------
(* Properties of the order of the list after a search *)

\* The scores of a list never increase
ScoreDescending(shown) ==
    \A i, j \in 1..Len(shown) : i < j => shown[i].score >= shown[j].score

\* C28: after a search, the sort control untouched (the session has no step that
\* edits it), the list shown is in descending order of score, in both modes.
C28_ShownSortedByScore ==
    ev.kind = "response_ok" =>
        ScoreDescending(filteredAndSortedResults(results, filters, currentSearchMode))

\* C28 in definition mode only
C28_DefinitionShownSortedByScore ==
    ev.kind = "response_ok" /\ currentSearchMode = "definition" =>
        ScoreDescending(filteredAndSortedResults(results, filters, currentSearchMode))

\* a definition search answered with scores out of order, shown by score
C28_WitnessDefinition ==
    /\ ev.kind = "response_ok" /\ currentSearchMode = "definition"
    /\ ev.req.mode = "definition" /\ ~ScoreDescending(results)

----------------------------------------------------------------------------
(* Properties of the live detection of the mode *)

\* C29 as stated: an edit of the pattern box in pattern mode, or of the clue box
\* in definition mode, that leaves a non-empty trimmed text makes the selected
\* mode the one detectInputType gives for that text.
C29_DetectionOnBothBoxes ==
    [][/\ PatternChange /\ Trim(pattern') # <<>>
            => searchMode' = detectInputType(pattern', searchMode)
       /\ ClueChange /\ searchMode = "definition" /\ Trim(clue') # <<>>
            => searchMode' = detectInputType(clue', searchMode)
      ]_vars

\* C29: an edit of the pattern box that leaves a non-empty trimmed text makes the
\* selected mode the one detectInputType gives for that text (pattern to
\* definition only, the box being rendered in pattern mode); an edit of the clue
\* box never changes the selected mode.
C29_DetectionOnPatternBoxOnly ==
    [][/\ PatternChange /\ Trim(pattern') # <<>>
            => searchMode' = detectInputType(pattern', searchMode)
       /\ ClueChange => searchMode' = searchMode
      ]_vars

\* "a b" typed in the pattern box has switched the form to definition mode
C29_Witness ==
    /\ ev.kind = "edit" /\ searchMode = "definition" /\ currentSearchMode = "pattern"
    /\ pattern = <<97, 32, 98>> /\ detectInputType(pattern, "pattern") = "definition"

\* "g" typed in the clue box in definition mode: detectInputType gives pattern
\* and the form stays in definition mode
C29_WitnessClue ==
    /\ ev.kind = "edit" /\ searchMode = "definition" /\ pattern = <<>>
    /\ clue = <<103>> /\ detectInputType(clue, searchMode) = "pattern"

\* C30: a non-blank pattern field in pattern mode always holds a text that
\* detectInputType classifies as a pattern; so a submit dispatches in the
\* selected mode, with the trimmed pattern and the trimmed clue of the form: the
\* branch of handleSubmit that moves the pattern into the clue has not run.
C30_PatternFieldIsAPattern ==
    /\ searchMode = "pattern" /\ Trim(pattern) # <<>>
           => detectInputType(Trim(pattern), searchMode) = "pattern"
    /\ ev.kind = "submit" =>
           /\ ev.req.mode = searchMode
           /\ ev.req.pattern = Trim(pattern)
           /\ ev.req.clue = Trim(clue)

\* a submit of "a " in pattern mode
C30_Witness ==
    /\ ev.kind = "submit" /\ searchMode = "pattern"
    /\ pattern = <<97, 32>> /\ ev.req.pattern = <<97>> /\ ev.req.mode = "pattern"

\* a submit in definition mode with "a b" left in the pattern field
C30_WitnessDefinition ==
    /\ ev.kind = "submit" /\ searchMode = "definition"
    /\ pattern = <<97, 32, 98>> /\ ev.req.pattern = pattern /\ ev.req.mode = "definition"

----------------------------------------------------------------------------
(* Properties of the pattern field left hidden in definition mode *)

\* C31: a definition search submitted from the form is dispatched with an empty
\* pattern, and every definition entry of the history has an empty pattern.
C31_DefinitionSearchHasNoPattern ==
    /\ ev.kind = "submit" /\ ev.req.mode = "definition" => ev.req.pattern = <<>>
    /\ \A h \in Items(searchHistory) : h.mode = "definition" => h.pattern = <<>>

\* C31, the request alone: the body posted by a definition search holds no pattern
C31_DefinitionBodyHasNoPattern ==
    \A r \in inflight : r.mode = "definition" =>
        "pattern" \notin r.body.keys /\ r.body.pattern = <<>>

----------------------------------------------------------------------------
(* Properties of the results mode, the error and the viewer across searches *)

\* C32: a non-empty result set that a response has just delivered comes from a
\* search of the current results mode.
C32_ResultsModeIsCurrentMode ==
    ev.kind = "response_ok" /\ results # <<>> => ev.req.mode = currentSearchMode

\* C32, what does hold: every step that changes the results mode empties the
\* result set
C32_ModeChangeClearsResults ==
    [][currentSearchMode' # currentSearchMode => results' = <<>>]_vars

\* C33: an error message is never shown with a non-empty result set; after a
\* response the error is set only if that response failed; and a dispatch leaves
\* no error.
C33_ErrorExcludesResults ==
    /\ error # Null => results = <<>>
    /\ ev.kind = "response_ok" => error = Null
    /\ ev.kind \in {"submit", "history"} => error = Null

\* C33, what does hold: a dispatch leaves no error and no results
C33_DispatchClearsError ==
    ev.kind \in {"submit", "history"} => error = Null /\ results = <<>>

\* C34: whenever the list is rendered with the viewer open, the word and the
\* definition the viewer shows are those of an item of the current result set.
C34_ViewerShowsCurrentResult ==
    ListRendered /\ selectedDefinition.open =>
        \E r \in Items(results) :
            r.word = selectedDefinition.word /\ r.definition = selectedDefinition.definition

\* C34, what does hold: the viewer is opened with an item of the result set of
\* that moment
C34_OpenedFromCurrentResult ==
    ev.kind = "click" /\ selectedDefinition # ev.preSelected =>
        \E r \in Items(results) :
            r.word = selectedDefinition.word /\ r.definition = selectedDefinition.definition

----------------------------------------------------------------------------
(* Properties of the sort select *)

\* C35: sortBy is always an option the sort select offers in the current results
\* mode: found or alphabetical in pattern mode; score, alphabetical or length in
\* definition mode.
C35_SortByIsOfferedInMode ==
    /\ currentSearchMode = "pattern" => filters.sortBy \in {"found", "alphabetical"}
    /\ currentSearchMode = "definition" => filters.sortBy \in {"score", "alphabetical", "length"}

\* a click on a pattern search of the history while definition results were
\* sorted by length
C35_Witness ==
    /\ ev.kind = "history" /\ ev.preMode = "definition" /\ currentSearchMode = "pattern"
    /\ ev.preFilters.sortBy = "length" /\ filters.sortBy = "found"

\* alphabetical selected in pattern mode
C35_WitnessSelected ==
    /\ ev.kind = "filter" /\ currentSearchMode = "pattern" /\ filters.sortBy = "alphabetical"
====
